---- MODULE Spec2Model ----
(***************************************************************************)
(* A model of torch/_dynamo/bytecode_transformation.py: the pipeline of    *)
(* transform_code_object (decode, virtualize jumps, strip prefixes,        *)
(* canonicalize, caller mutation, fix_vars, the update_offsets /           *)
(* devirtualize_jumps / fix_extended_args loop, assemble) and the two line *)
(* table writers (lnotab_writer, linetable_writer).                        *)
(*                                                                         *)
(* sys.version_info is the variable py: 308 stands for every interpreter   *)
(* below 3.10, 310 for 3.10 and 311 for 3.11 and later.                    *)
(***************************************************************************)
EXTENDS Integers, Sequences, FiniteSets, TLC

\* ------------------------------------------------------------------------
\* Bounds of the exploration.

\* Passes of the normalizer loop the model is allowed to take.
MaxPasses == 6
\* Calls of update the line-writer machine takes before end.
MaxUpdates == 3

\* ------------------------------------------------------------------------
\* Python values.

\* None, for the Optional[int] fields of Instruction (arg, offset,
\* starts_line), for argval and for target: a value outside the range of
\* every operand, offset, line number and instruction identity.
None == -1000000

Profiles == {308, 310, 311}

Min(a, b) == IF a < b THEN a ELSE b
Max(a, b) == IF a > b THEN a ELSE b

\* x & 0xFF on a Python int (two's complement for a negative x).
AndFF(x) == x % 256
\* x >> n on a Python int (arithmetic shift: floor division).
Shr(x, n) == x \div (2 ^ n)

\* F(e), with e evaluated once and before F is.
Once(F(_), e) == CHOOSE r \in { F(x) : x \in {e} } : TRUE

\* "for x in xs[lo..hi]: s = Op(s, x)".  The range is folded by halves, the
\* left half first, so that a list of some hundred instructions is walked
\* without deep recursion; the result is that of the loop.
RECURSIVE FoldLeft(_, _, _, _, _)
FoldLeft(Op(_, _), s, xs, lo, hi) ==
  IF lo > hi THEN s
  ELSE IF lo = hi THEN Op(s, xs[lo])
  ELSE LET Halves(mid) ==
             LET Right(left) == FoldLeft(Op, left, xs, mid + 1, hi)
             IN Once(Right, FoldLeft(Op, s, xs, lo, mid))
       IN Once(Halves, (lo + hi) \div 2)

\* "for x in xs: s = Op(s, x)"
Loop(Op(_, _), s, xs) ==
  LET From(start) == LET Over(ys) == FoldLeft(Op, start, ys, 1, Len(ys))
                     IN Once(Over, xs)
  IN Once(From, s)

\* ------------------------------------------------------------------------
\* The dis module's tables, for the opcodes the model uses.

OpNames == {"NOP", "RETURN_VALUE", "LOAD_CONST", "LOAD_ATTR", "JUMP_FORWARD",
            "JUMP_ABSOLUTE", "POP_JUMP_IF_FALSE", "LOAD_GLOBAL", "LOAD_FAST",
            "CALL_FUNCTION", "LOAD_DEREF", "JUMP_BACKWARD", "EXTENDED_ARG",
            "LOAD_METHOD", "CALL_METHOD", "PRECALL", "CALL"}

\* dis.opmap
opmap(v) ==
  [name \in OpNames |->
     CASE name = "NOP" -> 9
       [] name = "RETURN_VALUE" -> 83
       [] name = "LOAD_CONST" -> 100
       [] name = "LOAD_ATTR" -> 106
       [] name = "JUMP_FORWARD" -> 110
       [] name = "JUMP_ABSOLUTE" -> 113
       [] name = "POP_JUMP_IF_FALSE" -> 114
       [] name = "LOAD_GLOBAL" -> 116
       [] name = "LOAD_FAST" -> 124
       [] name = "CALL_FUNCTION" -> 131
       [] name = "LOAD_DEREF" -> IF v >= 311 THEN 137 ELSE 136
       [] name = "JUMP_BACKWARD" -> 140
       [] name = "EXTENDED_ARG" -> 144
       [] name = "LOAD_METHOD" -> 160
       [] name = "CALL_METHOD" -> 161
       [] name = "PRECALL" -> 166
       [] name = "CALL" -> 171]

\* dis.opname
opname(v, n) == CHOOSE name \in OpNames : opmap(v)[name] = n

\* dis.hasjabs (empty from 3.11 on) and dis.hasjrel
hasjabs(v) == IF v >= 311 THEN {} ELSE {"JUMP_ABSOLUTE", "POP_JUMP_IF_FALSE"}
hasjrel(v) == IF v >= 311 THEN {"JUMP_FORWARD", "JUMP_BACKWARD"}
              ELSE {"JUMP_FORWARD"}

\* dis.haslocal, dis.hasname (HAS_LOCAL, HAS_NAME)
HAS_LOCAL == {"LOAD_FAST"}
HAS_NAME == {"LOAD_ATTR", "LOAD_GLOBAL", "LOAD_METHOD"}

\* Opcodes below dis.HAVE_ARGUMENT take no operand: dis reports arg None.
HasArg(v, name) == opmap(v)[name] >= 90

\* "BACKWARD" in inst.opname
IsBackward(name) == name = "JUMP_BACKWARD"

\* _PYOPCODE_CACHES.get(name, 0)
PYOPCODE_CACHES(name) ==
  CASE name = "LOAD_ATTR" -> 4
    [] name = "LOAD_GLOBAL" -> 5
    [] name = "LOAD_METHOD" -> 10
    [] name = "PRECALL" -> 1
    [] name = "CALL" -> 4
    [] OTHER -> 0

\* instruction_size, by opcode name
OpSize(v, name) == IF v >= 311 THEN 2 * (PYOPCODE_CACHES(name) + 1) ELSE 2

\* ------------------------------------------------------------------------
\* Input domain: the code units handed to transform_code_object.  A code
\* unit is written down as a program of abstract instructions (operation,
\* operand, name, jump target by position, source line) and encoded the way
\* the interpreter's compiler encodes it: the least number of EXTENDED_ARG
\* prefixes, every jump operand addressing the first unit of its target.

AI(op, arg, name, tgt, line) ==
  [op |-> op, arg |-> arg, name |-> name, tgt |-> tgt, line |-> line]

\* The names tables of every code unit of the domain.
CoNames == <<"super", "f", "a">>
CoVarnames == <<"self", "x">>

\* Position of a name in a tuple, as tuple.index counts it (from 0).
IndexIn(tuple, name) == (CHOOSE i \in 1..Len(tuple) : tuple[i] = name) - 1
InTuple(tuple, name) == \E i \in 1..Len(tuple) : tuple[i] = name

FirstLine == 10

\* A call of super() without arguments, then a method call.
Header(v, hdr, l) ==
  IF hdr = "none" THEN <<>>
  ELSE IF v >= 311
  THEN << AI("LOAD_GLOBAL", 1, "super", 0, l), AI("PRECALL", 0, "", 0, l),
          AI("CALL", 0, "", 0, l), AI("LOAD_METHOD", 1, "f", 0, l),
          AI("PRECALL", 0, "", 0, l), AI("CALL", 0, "", 0, l) >>
  ELSE << AI("LOAD_GLOBAL", 0, "super", 0, l),
          AI("CALL_FUNCTION", 0, "", 0, l), AI("LOAD_METHOD", 1, "f", 0, l),
          AI("CALL_METHOD", 0, "", 0, l) >>

Filler(v, fill, l) ==
  IF fill = "attr" THEN AI("LOAD_ATTR", 2, "a", 0, l) ELSE AI("NOP", None, "", 0, l)

Ending(c, l) ==
  (IF c.tail = 0 THEN <<>> ELSE << AI("LOAD_CONST", c.tail, "", 0, l) >>)
  \o << AI("RETURN_VALUE", None, "", 0, l) >>

\* c.shape: "fwd", a relative forward jump over c.m fillers; "abs", the same
\* with an absolute jump (a forward relative one from 3.11 on); "back", a
\* jump back over c.m fillers.  The landing instruction is LOAD_CONST c.carg.
Program(c) ==
  LET v == c.v
      l1 == FirstLine + 1
      l2 == l1 + c.ld
      h == Header(v, c.hdr, l1)
      k == Len(h)
      fill == [i \in 1..c.m |-> Filler(v, c.fill, l1)]
  IN IF c.shape = "back"
     THEN h \o << AI("LOAD_CONST", c.carg, "", 0, l1) >> \o fill
            \o << AI(IF v >= 311 THEN "JUMP_BACKWARD" ELSE "JUMP_ABSOLUTE",
                     0, "", k + 1, l2) >>
            \o Ending(c, l2)
     ELSE h \o << AI("LOAD_FAST", 1, "x", 0, l1),
                  AI(IF c.shape = "abs" /\ v < 311 THEN "POP_JUMP_IF_FALSE"
                     ELSE "JUMP_FORWARD", 0, "", k + 3 + c.m, l1) >>
            \o fill
            \o << AI("LOAD_CONST", c.carg, "", 0, l2) >> \o Ending(c, l2)

Cfg(v, shape, m, fill, carg, hdr, tail, ld, cell) ==
  [v |-> v, shape |-> shape, m |-> m, fill |-> fill, carg |-> carg,
   hdr |-> hdr, tail |-> tail, ld |-> ld, cell |-> cell]

Configs ==
  { Cfg(308, "fwd", 2, "nop", 1, "none", 0, 1, TRUE),
    Cfg(308, "fwd", 130, "nop", 1, "none", 0, 1, TRUE),
    Cfg(308, "abs", 126, "nop", 300, "none", 0, 1, TRUE),
    Cfg(308, "back", 3, "nop", 300, "call", 70000, 300, TRUE),
    Cfg(308, "fwd", 2, "nop", 1, "call", 16777300, 1, FALSE),
    Cfg(310, "fwd", 2, "nop", 1, "none", 0, 300, TRUE),
    Cfg(310, "abs", 256, "nop", 300, "none", 0, 1, TRUE),
    Cfg(310, "back", 3, "nop", 1, "call", 0, 1, TRUE),
    Cfg(311, "fwd", 2, "nop", 1, "call", 0, 1, TRUE),
    Cfg(311, "fwd", 60, "attr", 300, "none", 0, 1, TRUE),
    Cfg(311, "back", 60, "attr", 300, "none", 0, 1, TRUE) }

\* Number of EXTENDED_ARG prefixes an operand needs.
NeedExt(arg) == IF arg > 16777215 THEN 3
                ELSE IF arg > 65535 THEN 2
                ELSE IF arg > 255 THEN 1 ELSE 0

\* Offset of the first unit (prefixes included) of each abstract instruction
\* when instruction j carries pref[j] prefixes; the last entry is the length
\* of the code.
RefStart(v, prog, pref) ==
  LET Step(st, i) == Append(st, st[i] + 2 * pref[i] + OpSize(v, prog[i].op))
  IN Loop(Step, << 0 >>, [i \in 1..Len(prog) |-> i])

\* The operand the compiler gives instruction i under that layout.
RefArg(v, prog, pref, st, i) ==
  LET a == prog[i]
      own == st[i] + 2 * pref[i]
      d == st[a.tgt] - own - OpSize(v, a.op)
      dd == IF v < 310 THEN d ELSE d \div 2
  IN IF a.tgt = 0 THEN a.arg
     ELSE IF a.op \in hasjabs(v)
     THEN (IF v < 310 THEN st[a.tgt] ELSE st[a.tgt] \div 2)
     ELSE IF v >= 311 /\ IsBackward(a.op) THEN 0 - dd ELSE dd

RECURSIVE RefFix(_, _, _)
RefFix(v, prog, pref) ==
  LET st == RefStart(v, prog, pref)
      need == [i \in 1..Len(prog) |->
                 LET x == RefArg(v, prog, pref, st, i)
                 IN IF x = None THEN 0 ELSE NeedExt(x)]
  IN IF need = pref THEN pref ELSE RefFix(v, prog, need)

\* The bytes of one instruction: its prefixes, most significant first, the
\* instruction, and its zero-filled cache units.
RefUnit(v, op, arg, k) ==
  [j \in 1..(2 * k) |->
     IF j % 2 = 1 THEN opmap(v)["EXTENDED_ARG"]
     ELSE AndFF(Shr(arg, 8 * (k + 1 - (j \div 2))))]
  \o << opmap(v)[op], IF arg = None THEN 0 ELSE AndFF(arg) >>
  \o [j \in 1..(OpSize(v, op) - 2) |-> 0]

RefBytes(v, prog, pref, st) ==
  LET Step(bytes, i) ==
        bytes \o RefUnit(v, prog[i].op, RefArg(v, prog, pref, st, i), pref[i])
  IN Loop(Step, <<>>, [i \in 1..Len(prog) |-> i])

\* What dis.findlinestarts yields for the code unit: the offset at which each
\* run of instructions of one source line starts.
RefLineStarts(prog, st) ==
  LET Step(s, i) ==
        IF prog[i].line = s.last THEN s
        ELSE [out |-> Append(s.out, << st[i], prog[i].line >>), last |-> prog[i].line]
  IN Loop(Step, [out |-> <<>>, last |-> None], [i \in 1..Len(prog) |-> i]).out

\* ------------------------------------------------------------------------
\* Instruction (the dataclass) and the decoder.

\* An Instruction object.  id is the object's identity (__hash__ and __eq__
\* are by id): target holds the id of the instruction it refers to.  opcode
\* is opmap[opname].  argval is kept in two fields: argval when it is an
\* integer, argname when it is a name ("" otherwise).
Instruction(id, name, arg, argval, argname, offset, starts_line, is_jump_target, target) ==
  [id |-> id, opname |-> name, arg |-> arg, argval |-> argval,
   argname |-> argname, offset |-> offset, starts_line |-> starts_line,
   is_jump_target |-> is_jump_target, target |-> target]

\* create_instruction(name, arg): a fresh object with argval = arg, no
\* offset, no line and no target.
create_instruction(id, name, arg, argname) ==
  Instruction(id, name, arg, IF argname = "" THEN arg ELSE None, argname,
              None, None, FALSE, None)

\* The identity given to the EXTENDED_ARG objects fix_extended_args creates:
\* no target field ever refers to one of them.
PrefixId == 0

instruction_size(v, inst) == OpSize(v, inst.opname)

IsJump(v, inst) == inst.opname \in (hasjabs(v) \cup hasjrel(v))

\* dis._unpack_opargs: "for i in range(0, len(code), 2)", one triple per
\* instruction of co_code, cache units skipped, extended_arg accumulated
\* into the operand that follows.
unpack_opargs(v, co) ==
  LET Step(s, i) ==
        IF s.caches > 0 THEN [s EXCEPT !.caches = @ - 1]
        ELSE LET name == opname(v, co[i + 1])
                 has == HasArg(v, name)
                 arg == IF has THEN co[i + 2] + s.extended_arg ELSE None
             IN [out |-> Append(s.out, [offset |-> i, opname |-> name, arg |-> arg]),
                 caches |-> (OpSize(v, name) \div 2) - 1,
                 extended_arg |-> IF has /\ name = "EXTENDED_ARG" THEN arg * 256 ELSE 0]
  IN Loop(Step, [out |-> <<>>, caches |-> 0, extended_arg |-> 0],
          [k \in 1..(Len(co) \div 2) |-> 2 * (k - 1)]).out

\* The offset a jump's operand addresses, as dis computes argval.
JumpArgval(v, u) ==
  IF u.opname \in hasjabs(v)
  THEN (IF v < 310 THEN u.arg ELSE u.arg * 2)
  ELSE IF v < 310 THEN u.offset + 2 + u.arg
  ELSE IF v >= 311 /\ IsBackward(u.opname) THEN u.offset + 2 - u.arg * 2
  ELSE u.offset + 2 + u.arg * 2

\* A table byte read as a signed char.
Signed(b) == IF b >= 128 THEN b - 256 ELSE b

\* dis.findlinestarts on a co_lnotab (before 3.10): pairs <<offset, line>>.
RECURSIVE lnotab_starts(_, _, _, _, _, _)
lnotab_starts(tab, i, addr, lineno, lastlineno, bytecode_len) ==
  IF i > Len(tab)
  THEN (IF lineno # lastlineno THEN << << addr, lineno >> >> ELSE <<>>)
  ELSE LET yield == tab[i] # 0 /\ lineno # lastlineno
           out == IF yield THEN << << addr, lineno >> >> ELSE <<>>
       IN IF tab[i] # 0 /\ addr + tab[i] >= bytecode_len THEN out
          ELSE out \o lnotab_starts(tab, i + 2, addr + tab[i],
                                    lineno + Signed(tab[i + 1]),
                                    IF yield THEN lineno ELSE lastlineno,
                                    bytecode_len)

\* dis.findlinestarts on a 3.10 co_linetable: code.co_lines() walks the
\* ranges (an entry is a range of tab[i] bytes on the line reached by adding
\* its line delta, -128 marking a range without a line; empty ranges are
\* passed over), and a range starts a line when its line differs from the
\* last one yielded.
RECURSIVE linetable_starts(_, _, _, _, _)
linetable_starts(tab, i, end, computed_line, lastline) ==
  IF i > Len(tab) THEN <<>>
  ELSE LET ldelta == Signed(tab[i + 1])
           computed == IF ldelta = -128 THEN computed_line ELSE computed_line + ldelta
           yield == tab[i] # 0 /\ ldelta # -128 /\ computed # lastline
       IN (IF yield THEN << << end, computed >> >> ELSE <<>>)
            \o linetable_starts(tab, i + 2, end + tab[i], computed,
                                IF yield THEN computed ELSE lastline)

\* dis.findlinestarts(code).  The 3.11 location table is not modelled: there
\* the code unit carries the line starts it decodes to.
findlinestarts(v, code) ==
  IF v < 310
  THEN lnotab_starts(code.co_lnotab, 1, 0, code.co_firstlineno, None, Len(code.co_code))
  ELSE IF v = 310
  THEN linetable_starts(code.co_lnotab, 1, 0, code.co_firstlineno, None)
  ELSE code.linestarts

LineStartAt(linestarts, off) ==
  IF \E k \in 1..Len(linestarts) : linestarts[k][1] = off
  THEN linestarts[CHOOSE k \in 1..Len(linestarts) : linestarts[k][1] = off][2]
  ELSE None

\* list(map(convert_instruction, dis.get_instructions(code)))
get_instructions(v, code) ==
  LET us == unpack_opargs(v, code.co_code)
      linestarts == findlinestarts(v, code)
      labels == { JumpArgval(v, us[k]) :
                    k \in { j \in 1..Len(us) :
                              us[j].opname \in (hasjabs(v) \cup hasjrel(v)) } }
  IN [k \in 1..Len(us) |->
        LET u == us[k]
            jump == u.opname \in (hasjabs(v) \cup hasjrel(v))
            named == u.opname \in (HAS_NAME \cup HAS_LOCAL)
            nm == IF u.opname \in HAS_LOCAL THEN code.co_varnames[u.arg + 1]
                  ELSE IF u.opname = "LOAD_GLOBAL" /\ v >= 311
                  THEN code.co_names[(u.arg \div 2) + 1]
                  ELSE IF u.opname \in HAS_NAME THEN code.co_names[u.arg + 1]
                  ELSE ""
        IN Instruction(k, u.opname, u.arg,
                       IF jump THEN JumpArgval(v, u)
                       ELSE IF named THEN None ELSE u.arg,
                       nm, u.offset, LineStartAt(linestarts, u.offset),
                       u.offset \in labels, None)]

\* check_offsets: TRUE when none of its assertions fails.
check_offsets(v, instructions) ==
  LET Step(s, inst) ==
        [ok |-> s.ok /\ inst.offset = s.offset,
         offset |-> s.offset + instruction_size(v, inst)]
  IN Loop(Step, [ok |-> TRUE, offset |-> 0], instructions).ok

\* A layout that counts every instruction as one unit, inline caches left out.
update_offsets_one_unit(v, instructions) ==
  [i \in 1..Len(instructions) |-> [instructions[i] EXCEPT !.offset = 2 * (i - 1)]]

\* update_offsets
update_offsets(v, instructions) ==
  LET Step(s, inst) ==
        [out |-> Append(s.out, [inst EXCEPT !.offset = s.offset]),
         offset |-> s.offset + instruction_size(v, inst)]
  IN Loop(Step, [out |-> <<>>, offset |-> 0], instructions).out

\* ------------------------------------------------------------------------
\* Jump virtualizer, prefix stripping, canonicalization.

HasOffset(instructions, off) ==
  \E i \in 1..Len(instructions) : instructions[i].offset = off
\* jump_targets[off]: the dictionary keeps the last instruction of an offset.
AtOffset(instructions, off) ==
  instructions[CHOOSE i \in 1..Len(instructions) :
                 /\ instructions[i].offset = off
                 /\ \A j \in (i + 1)..Len(instructions) : instructions[j].offset # off]

\* The probe of virtualize_jumps over offsets 0, 2, 4, 6 from argval: the
\* id of the first instruction found that is no EXTENDED_ARG; None when all
\* four are; "KeyError" is reported by virtualize_raises.
RECURSIVE probe_target(_, _, _)
probe_target(instructions, argval, k) ==
  IF k > 3 THEN None
  ELSE IF AtOffset(instructions, argval + 2 * k).opname # "EXTENDED_ARG"
  THEN AtOffset(instructions, argval + 2 * k).id
  ELSE probe_target(instructions, argval, k + 1)

RECURSIVE probe_raises(_, _, _)
probe_raises(instructions, argval, k) ==
  IF k > 3 THEN FALSE
  ELSE IF ~HasOffset(instructions, argval + 2 * k) THEN TRUE
  ELSE IF AtOffset(instructions, argval + 2 * k).opname # "EXTENDED_ARG" THEN FALSE
  ELSE probe_raises(instructions, argval, k + 1)

virtualize_raises(v, instructions) ==
  \E i \in 1..Len(instructions) :
     IsJump(v, instructions[i]) /\ probe_raises(instructions, instructions[i].argval, 0)

virtualize_jumps(v, instructions) ==
  [i \in 1..Len(instructions) |->
     IF IsJump(v, instructions[i])
     THEN [instructions[i] EXCEPT
             !.target = probe_target(instructions, instructions[i].argval, 0)]
     ELSE instructions[i]]

IsNotPrefix(inst) == inst.opname # "EXTENDED_ARG"

strip_extended_args(instructions) == SelectSeq(instructions, IsNotPrefix)

remove_load_call_method(instructions) ==
  [i \in 1..Len(instructions) |->
     IF instructions[i].opname = "LOAD_METHOD"
     THEN [instructions[i] EXCEPT !.opname = "LOAD_ATTR"]
     ELSE IF instructions[i].opname = "CALL_METHOD"
     THEN [instructions[i] EXCEPT !.opname = "CALL_FUNCTION"]
     ELSE instructions[i]]

MaxId(instructions) ==
  IF instructions = <<>> THEN 0
  ELSE LET ids == { instructions[i].id : i \in 1..Len(instructions) }
       IN CHOOSE m \in ids : \A x \in ids : x <= m

cell_and_freevars_offset(v, code, i) == IF v >= 311 THEN i + code.co_nlocals ELSE i

\* explicit_super: where it rewrites.  The test reads instructions[idx + 1].
IsSuperLoad(instructions, i) ==
  /\ instructions[i].opname = "LOAD_GLOBAL"
  /\ instructions[i].argname = "super"
IsSuperCall(instructions, i) ==
  /\ IsSuperLoad(instructions, i)
  /\ i < Len(instructions)
  /\ instructions[i + 1].opname \in {"CALL_FUNCTION", "PRECALL"}
  /\ instructions[i + 1].arg = 0

\* explicit_super raises: IndexError when LOAD_GLOBAL super is the last
\* instruction, AssertionError when __class__ is no cell or free variable.
explicit_super_raises(code, instructions) ==
  LET cell_and_free == code.co_cellvars \o code.co_freevars
  IN \E i \in 1..Len(instructions) :
        \/ IsSuperLoad(instructions, i) /\ i = Len(instructions)
        \/ IsSuperCall(instructions, i) /\ ~InTuple(cell_and_free, "__class__")

explicit_super(v, code, instructions) ==
  LET cell_and_free == code.co_cellvars \o code.co_freevars
      first_var == code.co_varnames[1]
      base == MaxId(instructions)
      \* nexti.arg = 2 and, after a PRECALL, call_inst.arg = 2
      patched(i) ==
        IF \/ (i > 1 /\ IsSuperCall(instructions, i - 1))
           \/ (i > 2 /\ IsSuperCall(instructions, i - 2)
                     /\ instructions[i - 1].opname = "PRECALL")
        THEN [instructions[i] EXCEPT !.arg = 2, !.argval = 2]
        ELSE instructions[i]
      added(i) ==
        IF IsSuperCall(instructions, i)
        THEN << create_instruction(
                  base + 2 * i - 1, "LOAD_DEREF",
                  cell_and_freevars_offset(v, code, IndexIn(cell_and_free, "__class__")),
                  "__class__"),
                IF InTuple(cell_and_free, first_var)
                THEN create_instruction(
                       base + 2 * i, "LOAD_DEREF",
                       cell_and_freevars_offset(v, code, IndexIn(cell_and_free, first_var)),
                       first_var)
                ELSE create_instruction(base + 2 * i, "LOAD_FAST", 0, first_var) >>
        ELSE <<>>
      Step(output, i) == output \o << patched(i) >> \o added(i)
  IN Loop(Step, <<>>, [i \in 1..Len(instructions) |-> i])

\* ------------------------------------------------------------------------
\* The line-number collaborators (bytecode_analysis).

\* propagate_line_nums: every instruction gets the line of the nearest line
\* start at or before it.
propagate_line_nums(instructions) ==
  LET Step(s, inst) ==
        LET cur == IF inst.starts_line # None THEN inst.starts_line ELSE s.cur
        IN [out |-> Append(s.out, [inst EXCEPT !.starts_line = cur]), cur |-> cur]
  IN Loop(Step, [out |-> <<>>, cur |-> None], instructions).out

\* remove_extra_line_nums: a line mark is dropped when the nearest mark
\* before it is of the same line.
remove_extra_line_nums(instructions) ==
  LET Step(s, inst) ==
        IF inst.starts_line = None THEN [s EXCEPT !.out = Append(@, inst)]
        ELSE IF inst.starts_line = s.cur
        THEN [s EXCEPT !.out = Append(@, [inst EXCEPT !.starts_line = None])]
        ELSE [out |-> Append(s.out, inst), cur |-> inst.starts_line]
  IN Loop(Step, [out |-> <<>>, cur |-> None], instructions).out

\* ------------------------------------------------------------------------
\* The caller's transformations(instructions, code_options).

IndexOfId(instructions, id) ==
  CHOOSE i \in 1..Len(instructions) : instructions[i].id = id
HasId(instructions, id) ==
  \E i \in 1..Len(instructions) : instructions[i].id = id

\* The first jump of the list and the position of its target.
JumpIndex(v, instructions) ==
  CHOOSE i \in 1..Len(instructions) :
     /\ IsJump(v, instructions[i])
     /\ \A j \in 1..(i - 1) : ~IsJump(v, instructions[j])
HasJump(v, instructions) == \E i \in 1..Len(instructions) : IsJump(v, instructions[i])
TargetIndex(v, instructions) ==
  IndexOfId(instructions, instructions[JumpIndex(v, instructions)].target)

InsertAt(instructions, pos, new) ==
  SubSeq(instructions, 1, pos - 1) \o new \o SubSeq(instructions, pos, Len(instructions))
RemoveAt(instructions, pos) ==
  SubSeq(instructions, 1, pos - 1) \o SubSeq(instructions, pos + 1, Len(instructions))

Fresh(instructions, n) ==
  [k \in 1..n |-> create_instruction(MaxId(instructions) + k, "NOP", None, "")]

\* create_jump_absolute(target)
create_jump_absolute(v, id, target) ==
  [create_instruction(id, IF v >= 311 THEN "JUMP_FORWARD" ELSE "JUMP_ABSOLUTE", None, "")
     EXCEPT !.target = target]

\* create_load_global(name, arg, push_null)
create_load_global(v, id, name, arg, push_null) ==
  create_instruction(id, "LOAD_GLOBAL",
                     IF v >= 311 THEN arg * 2 + push_null ELSE arg, name)

\* For "insert_load_global", n is the push_null the caller passes.
Mutations ==
  { [kind |-> "none", n |-> 0],
    [kind |-> "insert_load_global", n |-> 0],
    [kind |-> "insert_load_global", n |-> 1],
    [kind |-> "insert_before_target", n |-> 1],
    [kind |-> "insert_before_target", n |-> 5],
    [kind |-> "insert_after_target", n |-> 1],
    [kind |-> "insert_front", n |-> 1],
    [kind |-> "delete_filler", n |-> 0],
    [kind |-> "delete_target", n |-> 0],
    [kind |-> "swap_jump_target", n |-> 0],
    [kind |-> "append_jump_no_target", n |-> 0],
    [kind |-> "append_jump_absolute", n |-> 0] }

\* What the caller's function leaves in the list.
ApplyMutation(v, mu, instructions) ==
  LET j == JumpIndex(v, instructions)
      t == TargetIndex(v, instructions)
      n == Len(instructions)
  IN CASE mu.kind = "none" -> instructions
       [] mu.kind = "insert_before_target" ->
            InsertAt(instructions, t, Fresh(instructions, mu.n))
       [] mu.kind = "insert_after_target" ->
            InsertAt(instructions, t + 1, Fresh(instructions, mu.n))
       [] mu.kind = "insert_front" ->
            InsertAt(instructions, 1, Fresh(instructions, mu.n))
       [] mu.kind = "insert_load_global" ->
            InsertAt(instructions, 1,
                     << create_load_global(v, MaxId(instructions) + 1, "a", 0, mu.n) >>)
       [] mu.kind = "delete_filler" ->
            RemoveAt(instructions, IF j + 1 # t THEN j + 1 ELSE j - 1)
       [] mu.kind = "delete_target" -> RemoveAt(instructions, t)
       [] mu.kind = "swap_jump_target" ->
            [i \in 1..n |-> IF i = j THEN instructions[t]
                            ELSE IF i = t THEN instructions[j]
                            ELSE instructions[i]]
       [] mu.kind = "append_jump_no_target" ->
            InsertAt(instructions, n,
                     << create_instruction(MaxId(instructions) + 1, "JUMP_FORWARD", None, "") >>)
       [] mu.kind = "append_jump_absolute" ->
            InsertAt(instructions, n,
                     << create_jump_absolute(v, MaxId(instructions) + 1, instructions[1].id) >>)

\* ------------------------------------------------------------------------
\* Symbol resolver.

\* "assert instructions[i].arg is not None" fails at instruction i.
fix_vars_asserts_at(v, instructions, i) ==
  v >= 311 /\ instructions[i].opname = "LOAD_GLOBAL" /\ instructions[i].arg = None

\* varnames[argval] or names[argval] raises KeyError at instruction i.
fix_vars_keyerror_at(instructions, code_options, i) ==
  \/ instructions[i].opname \in HAS_LOCAL
       /\ ~InTuple(code_options.co_varnames, instructions[i].argname)
  \/ instructions[i].opname \in HAS_NAME
       /\ ~InTuple(code_options.co_names, instructions[i].argname)

fix_vars_raises(v, instructions, code_options) ==
  \E i \in 1..Len(instructions) :
     \/ fix_vars_asserts_at(v, instructions, i)
     \/ fix_vars_keyerror_at(instructions, code_options, i)

\* The exception of the first instruction at which fix_vars raises.
fix_vars_error(v, instructions, code_options) ==
  LET bad == { i \in 1..Len(instructions) :
                 \/ fix_vars_asserts_at(v, instructions, i)
                 \/ fix_vars_keyerror_at(instructions, code_options, i) }
      first == CHOOSE i \in bad : \A j \in bad : i <= j
  IN IF fix_vars_asserts_at(v, instructions, first) THEN "AssertionError"
     ELSE "KeyError"

\* A fix_vars that reads push_null after the table index has overwritten arg.
fix_vars_late_flag(v, instructions, code_options) ==
  [i \in 1..Len(instructions) |->
     LET inst == instructions[i]
         global == v >= 311 /\ inst.opname = "LOAD_GLOBAL"
         shift == IF global THEN 1 ELSE 0
         arg1 == IF inst.opname \in HAS_LOCAL
                 THEN IndexIn(code_options.co_varnames, inst.argname)
                 ELSE IF inst.opname \in HAS_NAME
                 THEN IndexIn(code_options.co_names, inst.argname)
                 ELSE inst.arg
         push_null == IF global THEN arg1 % 2 ELSE 0
     IN IF arg1 # None
        THEN [inst EXCEPT !.arg = arg1 * (2 ^ shift) + push_null]
        ELSE inst]

fix_vars(v, instructions, code_options) ==
  [i \in 1..Len(instructions) |->
     LET inst == instructions[i]
         global == v >= 311 /\ inst.opname = "LOAD_GLOBAL"
         shift == IF global THEN 1 ELSE 0
         push_null == IF global THEN inst.arg % 2 ELSE 0
         arg1 == IF inst.opname \in HAS_LOCAL
                 THEN IndexIn(code_options.co_varnames, inst.argname)
                 ELSE IF inst.opname \in HAS_NAME
                 THEN IndexIn(code_options.co_names, inst.argname)
                 ELSE inst.arg
     IN IF arg1 # None
        THEN [inst EXCEPT !.arg = arg1 * (2 ^ shift) + push_null]
        ELSE inst]

\* ------------------------------------------------------------------------
\* Jump devirtualizer and extended-argument normalizer.

\* A lookup that answers the last instruction for a missing key.
indexof_silent(instructions, id) ==
  IF HasId(instructions, id) THEN IndexOfId(instructions, id) ELSE Len(instructions)

\* indexof = {id(inst): i ...}; indexof[id(target)]: the position of the
\* instruction, None when the key is missing (Python raises KeyError).
indexof(instructions, id) ==
  IF HasId(instructions, id) THEN IndexOfId(instructions, id) ELSE None

\* indexof[id(target)] raises KeyError: the target is no element of the list.
devirtualize_raises(v, instructions) ==
  \E i \in 1..Len(instructions) :
     IsJump(v, instructions[i]) /\ indexof(instructions, instructions[i].target) = None

\* The walk back from the target over up to three EXTENDED_ARG instructions.
RECURSIVE first_prefix(_, _, _)
first_prefix(instructions, target_index, offset) ==
  IF offset > 3 THEN target_index - 3
  ELSE IF target_index - offset >= 1
          /\ instructions[target_index - offset].opname = "EXTENDED_ARG"
  THEN first_prefix(instructions, target_index, offset + 1)
  ELSE target_index - (offset - 1)

\* An operand computed as if every jump were absolute.
jump_arg_absolute(v, inst, target) ==
  IF v < 310 THEN target.offset ELSE target.offset \div 2

\* The operand devirtualize_jumps computes for jump inst landing on target.
jump_arg(v, inst, target) ==
  IF inst.opname \in hasjabs(v)
  THEN (IF v < 310 THEN target.offset ELSE target.offset \div 2)
  ELSE LET d == target.offset - inst.offset - instruction_size(v, inst)
           a == IF v < 310 THEN d ELSE d \div 2
       IN IF v >= 311 /\ IsBackward(inst.opname) THEN 0 - a ELSE a

devirtualize_jumps(v, instructions) ==
  [i \in 1..Len(instructions) |->
     LET inst == instructions[i] IN
     IF IsJump(v, inst)
     THEN LET target == instructions[first_prefix(instructions,
                                       indexof(instructions, inst.target), 1)]
          IN [inst EXCEPT !.arg = jump_arg(v, inst, target),
                          !.argval = target.offset]
     ELSE inst]

\* A maybe_pop_n that leaves the prefixes of the pass before in place.
maybe_pop_none(output, n) == output

RECURSIVE maybe_pop_n(_, _)
maybe_pop_n(output, n) ==
  IF n = 0 THEN output
  ELSE IF output # <<>> /\ output[Len(output)].opname = "EXTENDED_ARG"
  THEN maybe_pop_n(SubSeq(output, 1, Len(output) - 1), n - 1)
  ELSE maybe_pop_n(output, n - 1)

ExtendedArg(arg) == create_instruction(PrefixId, "EXTENDED_ARG", arg, "")

\* The instructions fix_extended_args appends for instructions[i], after the
\* pops it makes on the output so far.
fix_one(output, inst) ==
  IF inst.opname = "EXTENDED_ARG"
  THEN Append(output, [inst EXCEPT !.arg = 0])
  ELSE IF inst.arg # None /\ inst.arg # 0 /\ inst.arg > 16777215
  THEN maybe_pop_n(output, 3)
         \o << ExtendedArg(Shr(inst.arg, 24)), ExtendedArg(Shr(inst.arg, 16)),
               ExtendedArg(Shr(inst.arg, 8)), inst >>
  ELSE IF inst.arg # None /\ inst.arg # 0 /\ inst.arg > 65535
  THEN maybe_pop_n(output, 2)
         \o << ExtendedArg(Shr(inst.arg, 16)), ExtendedArg(Shr(inst.arg, 8)), inst >>
  ELSE IF inst.arg # None /\ inst.arg # 0 /\ inst.arg > 255
  THEN maybe_pop_n(output, 1) \o << ExtendedArg(Shr(inst.arg, 8)), inst >>
  ELSE Append(output, inst)

\* fix_extended_args: the new list; it returns len(output) - len(instructions).
fix_extended_args(instructions) == Loop(fix_one, <<>>, instructions)

\* ------------------------------------------------------------------------
\* Line position encoder.  A writer is the closure's state: the table so
\* far, byteno, lineno, lineno_delta (linetable_writer only) and whether one
\* of its assertions has failed.

\* lnotab_writer(lineno): byteno=0
lnotab_writer(lineno) ==
  [tab |-> <<>>, byteno |-> 0, lineno |-> lineno, lineno_delta |-> 0, failed |-> FALSE]

\* lnotab_writer.update
RECURSIVE lnotab_update(_, _, _)
lnotab_update(w, lineno_new, byteno_new) ==
  IF byteno_new = w.byteno /\ lineno_new = w.lineno THEN w
  ELSE LET byte_offset == Max(0, Min(byteno_new - w.byteno, 255))
           line_offset == Max(-128, Min(lineno_new - w.lineno, 127))
       IN IF byte_offset = 0 /\ line_offset = 0
          THEN [w EXCEPT !.failed = TRUE]
          ELSE lnotab_update(
                 [w EXCEPT !.byteno = @ + byte_offset,
                           !.lineno = @ + line_offset,
                           !.tab = @ \o << byte_offset, AndFF(line_offset) >>],
                 lineno_new, byteno_new)

\* linetable_writer(first_lineno)
linetable_writer(first_lineno) ==
  [tab |-> <<>>, byteno |-> 0, lineno |-> first_lineno, lineno_delta |-> 0,
   failed |-> FALSE]

\* linetable_writer._update
RECURSIVE linetable_emit(_, _, _)
linetable_emit(w, byteno_delta, lineno_delta) ==
  IF byteno_delta = 0 /\ lineno_delta = 0 THEN w
  ELSE LET byte_offset == Max(0, Min(byteno_delta, 254))
           line_offset == Max(-127, Min(lineno_delta, 127))
       IN IF byte_offset = 0 /\ line_offset = 0
          THEN [w EXCEPT !.failed = TRUE]
          ELSE linetable_emit(
                 [w EXCEPT !.tab = @ \o << byte_offset, AndFF(line_offset) >>],
                 byteno_delta - byte_offset, lineno_delta - line_offset)

\* An update that emits the line delta of the breakpoint it is called with.
linetable_update_eager(w, lineno_new, byteno_new) ==
  LET e == linetable_emit(w, byteno_new - w.byteno, lineno_new - w.lineno)
  IN [e EXCEPT !.byteno = byteno_new,
               !.lineno_delta = lineno_new - w.lineno,
               !.lineno = lineno_new]

\* linetable_writer.update
linetable_update(w, lineno_new, byteno_new) ==
  LET e == linetable_emit(w, byteno_new - w.byteno, w.lineno_delta)
  IN [e EXCEPT !.byteno = byteno_new,
               !.lineno_delta = lineno_new - w.lineno,
               !.lineno = lineno_new]

\* linetable_writer.end
linetable_end(w, total_bytes) ==
  linetable_emit(w, total_bytes - w.byteno, w.lineno_delta)

\* ------------------------------------------------------------------------
\* Assembler.

\* The bytes assemble emits for one instruction.
inst_bytes(v, inst) ==
  << opmap(v)[inst.opname],
     AndFF(IF inst.arg = None THEN 0 ELSE inst.arg) >>
  \o [j \in 1..(2 * ((instruction_size(v, inst) \div 2) - 1)) |-> 0]

\* assemble(instructions, firstlineno): [code, lnotab, failed]
assemble(v, instructions, firstlineno) ==
  LET Step(s, inst) ==
        [code |-> s.code \o inst_bytes(v, inst),
         w |-> IF inst.starts_line = None THEN s.w
               ELSE IF v < 310
               THEN lnotab_update(s.w, inst.starts_line, Len(s.code))
               ELSE linetable_update(s.w, inst.starts_line, Len(s.code))]
      last == Loop(Step,
                   [code |-> <<>>,
                    w |-> IF v < 310 THEN lnotab_writer(firstlineno)
                          ELSE linetable_writer(firstlineno)],
                   instructions)
      final == IF v >= 310 THEN linetable_end(last.w, Len(last.code)) ELSE last.w
  IN [code |-> last.code, lnotab |-> final.tab, failed |-> final.failed]

\* ------------------------------------------------------------------------
\* The line tables of the input domain, written as the interpreter's
\* compiler writes them (Objects/lnotab_notes.txt), and the runtime's
\* reading of a table.

Rep(n, a, b) == [j \in 1..(2 * n) |-> IF j % 2 = 1 THEN a ELSE b]

\* co_lnotab entries for one breakpoint at byte delta db and line delta dl:
\* the bytes are advanced first, 255 at a time with line delta 0.
RefLnotabEntry(db, dl) ==
  LET nb == IF db > 255 THEN db \div 255 ELSE 0
      b1 == db - 255 * nb
      k == IF dl < 0 THEN -128 ELSE 127
      big == dl < -128 \/ dl > 127
      nl == IF big THEN (IF dl < 0 THEN (0 - dl) \div 128 ELSE dl \div 127) ELSE 0
      dl2 == dl - nl * k
  IN IF db = 0 /\ dl = 0 THEN <<>>
     ELSE Rep(nb, 255, 0)
          \o (IF big THEN << b1, AndFF(k) >> \o Rep(nl - 1, 0, AndFF(k)) ELSE <<>>)
          \o << (IF big THEN 0 ELSE b1), AndFF(dl2) >>

RECURSIVE RefLnotab(_, _, _, _)
RefLnotab(linestarts, i, addr, line) ==
  IF i > Len(linestarts) THEN <<>>
  ELSE RefLnotabEntry(linestarts[i][1] - addr, linestarts[i][2] - line)
         \o RefLnotab(linestarts, i + 1, linestarts[i][1], linestarts[i][2])

\* co_linetable (3.10) entries for one line range of b bytes whose line
\* is dl above the line of the range before: the line is advanced first.
RefLinetableEntry(b, dl) ==
  LET nl == IF dl > 127 THEN (dl - 1) \div 127
            ELSE IF dl < -127 THEN ((0 - dl) - 1) \div 127 ELSE 0
      k == IF dl < 0 THEN -127 ELSE 127
      dl2 == dl - nl * k
      nb == IF b > 254 THEN (b - 1) \div 254 ELSE 0
  IN IF b = 0 THEN <<>>
     ELSE Rep(nl, 0, AndFF(k))
          \o (IF nb > 0 THEN << 254, AndFF(dl2) >> \o Rep(nb - 1, 254, 0)
                               \o << b - 254 * nb, 0 >>
              ELSE << b, AndFF(dl2) >>)

RECURSIVE RefLinetable(_, _, _, _)
RefLinetable(linestarts, i, prevline, total) ==
  IF i > Len(linestarts) THEN <<>>
  ELSE LET stop == IF i = Len(linestarts) THEN total ELSE linestarts[i + 1][1]
           b == stop - linestarts[i][1]
       IN RefLinetableEntry(b, linestarts[i][2] - prevline)
            \o RefLinetable(linestarts, i + 1,
                            IF b = 0 THEN prevline ELSE linestarts[i][2], total)

\* The code unit of a configuration.  co_lnotab is the line table of the
\* profile (co_linetable from 3.10 on; the 3.11 location table is not
\* modelled and left empty); linestarts is the line starts the compiler
\* recorded, which is what the table decodes to.
CodeOf(c) ==
  LET prog == Program(c)
      pref == RefFix(c.v, prog, [i \in 1..Len(prog) |-> 0])
      st == RefStart(c.v, prog, pref)
      ls == RefLineStarts(prog, st)
      bytes == RefBytes(c.v, prog, pref, st)
  IN [co_code |-> bytes,
      co_lnotab |-> IF c.v < 310 THEN RefLnotab(ls, 1, 0, FirstLine)
                    ELSE IF c.v = 310 THEN RefLinetable(ls, 1, FirstLine, Len(bytes))
                    ELSE <<>>,
      co_firstlineno |-> FirstLine,
      co_names |-> CoNames,
      co_varnames |-> CoVarnames,
      co_nlocals |-> Len(CoVarnames),
      co_cellvars |-> <<>>,
      co_freevars |-> IF c.cell THEN <<"__class__">> ELSE <<>>,
      linestarts |-> IF c.v >= 311 THEN ls ELSE <<>>]

NoCode ==
  [co_code |-> <<>>, co_lnotab |-> <<>>, co_firstlineno |-> FirstLine,
   co_names |-> <<>>, co_varnames |-> <<>>, co_nlocals |-> 0,
   co_cellvars |-> <<>>, co_freevars |-> <<>>, linestarts |-> <<>>]

NoResult == [co_code |-> <<>>, co_lnotab |-> <<>>, made |-> FALSE]

\* ------------------------------------------------------------------------
\* State.

VARIABLES
  py,            \* sys.version_info
  safe,          \* transform_code_object's safe argument
  code,          \* the code unit passed in
  mut,           \* what the caller's transformations function does
  instructions,  \* the instruction list
  pc,            \* where transform_code_object is
  err,           \* the exception that ended it ("" when none)
  dirty,         \* the loop's variable: what fix_extended_args returned
  passes,        \* iterations of the loop started so far
  result,        \* the code unit returned (made = FALSE until then)
  log,           \* the functions called so far, in order
  lkind,         \* line writer machine: "legacy" or "modern" ("off" in Spec)
  lw,            \* the writer
  lfed,          \* the breakpoints passed to update so far
  lcall,         \* the last call: its deltas and the pairs it emitted
  lstage         \* "feeding", "ended", "failed" ("off" in Spec)

pvars == << py, safe, code, mut, instructions, pc, err, dirty, passes, result, log >>
lvars == << lkind, lw, lfed, lcall, lstage >>
vars == << py, safe, code, mut, instructions, pc, err, dirty, passes, result, log,
           lkind, lw, lfed, lcall, lstage >>

NoCall == [kind |-> "none", db |-> 0, dl |-> 0, prev_dl |-> 0, from |-> 0, total |-> 0]

LineOff ==
  /\ lkind = "off"
  /\ lw = lnotab_writer(FirstLine)
  /\ lfed = <<>>
  /\ lcall = NoCall
  /\ lstage = "off"

\* transform_code_object(code, transformations, safe) is entered.
Init ==
  /\ \E c \in Configs : py = c.v /\ code = CodeOf(c)
  /\ safe \in BOOLEAN
  /\ mut = [kind |-> "none", n |-> 0]
  /\ instructions = <<>>
  /\ pc = "start"
  /\ err = ""
  /\ dirty = 1
  /\ passes = 0
  /\ result = NoResult
  /\ log = <<>>
  /\ LineOff

Raise(e) ==
  /\ pc' = "error"
  /\ err' = e

\* cleaned_instructions: dis.get_instructions, convert_instruction,
\* check_offsets.
Decode ==
  /\ pc = "start"
  /\ LET decoded == get_instructions(py, code)
     IN /\ instructions' = decoded
        /\ IF check_offsets(py, decoded)
           THEN pc' = "decoded" /\ err' = err
           ELSE Raise("AssertionError")
  /\ log' = log \o << "get_instructions", "check_offsets" >>
  /\ UNCHANGED << py, safe, code, mut, dirty, passes, result >>
  /\ UNCHANGED lvars

\* cleaned_instructions: virtualize_jumps, strip_extended_args.
Virtualize ==
  /\ pc = "decoded"
  /\ IF virtualize_raises(py, instructions)
     THEN Raise("KeyError") /\ instructions' = instructions
     ELSE /\ instructions' = strip_extended_args(virtualize_jumps(py, instructions))
          /\ pc' = "virtualized"
          /\ err' = err
  /\ log' = log \o << "virtualize_jumps", "strip_extended_args" >>
  /\ UNCHANGED << py, safe, code, mut, dirty, passes, result >>
  /\ UNCHANGED lvars

\* cleaned_instructions: "if not safe", the two canonicalization passes.
canonicalize(v, c, insts) ==
  explicit_super(v, c, IF v < 311 THEN remove_load_call_method(insts) ELSE insts)

\* A cleaned_instructions that canonicalizes whatever safe is.
canonical_unsafe(v, safe_, c, insts) == canonicalize(v, c, insts)

\* cleaned_instructions, from "if not safe" on: what it returns.
canonical(v, safe_, c, insts) == IF safe_ THEN insts ELSE canonicalize(v, c, insts)

Canonicalize ==
  /\ pc = "virtualized"
  /\ IF safe
     THEN /\ instructions' = canonical(py, safe, code, instructions)
          /\ pc' = "cleaned"
          /\ err' = err
          /\ log' = log
     ELSE LET removed == IF py < 311 THEN remove_load_call_method(instructions)
                         ELSE instructions
          IN /\ log' = log \o (IF py < 311 THEN << "remove_load_call_method" >> ELSE <<>>)
                           \o << "explicit_super" >>
             /\ IF explicit_super_raises(code, removed)
                THEN Raise("AssertionError") /\ instructions' = removed
                ELSE /\ instructions' = canonical(py, safe, code, instructions)
                     /\ pc' = "cleaned"
                     /\ err' = err
  /\ UNCHANGED << py, safe, code, mut, dirty, passes, result >>
  /\ UNCHANGED lvars

\* propagate_line_nums(instructions)
Propagate ==
  /\ pc = "cleaned"
  /\ instructions' = propagate_line_nums(instructions)
  /\ pc' = "propagated"
  /\ log' = Append(log, "propagate_line_nums")
  /\ UNCHANGED << py, safe, code, mut, err, dirty, passes, result >>
  /\ UNCHANGED lvars

\* transformations(instructions, code_options)
Transformations ==
  /\ pc = "propagated"
  /\ \E mu \in Mutations :
        /\ mut' = mu
        /\ instructions' = ApplyMutation(py, mu, instructions)
  /\ pc' = "transformed"
  /\ log' = Append(log, "transformations")
  /\ UNCHANGED << py, safe, code, err, dirty, passes, result >>
  /\ UNCHANGED lvars

\* fix_vars(instructions, code_options); dirty = True
FixVars ==
  /\ pc = "transformed"
  /\ IF fix_vars_raises(py, instructions, code)
     THEN Raise(fix_vars_error(py, instructions, code)) /\ instructions' = instructions
     ELSE /\ instructions' = fix_vars(py, instructions, code)
          /\ pc' = "loop"
          /\ err' = err
  /\ dirty' = 1
  /\ log' = Append(log, "fix_vars")
  /\ UNCHANGED << py, safe, code, mut, passes, result >>
  /\ UNCHANGED lvars

\* One iteration of "while dirty": update_offsets, devirtualize_jumps,
\* dirty = fix_extended_args(instructions).
one_pass(v, insts) ==
  LET Rest(laid) == fix_extended_args(devirtualize_jumps(v, laid))
  IN Once(Rest, update_offsets(v, insts))

LoopPass ==
  /\ pc = "loop"
  /\ dirty # 0
  /\ passes < MaxPasses
  /\ passes' = passes + 1
  /\ log' = log
  /\ IF devirtualize_raises(py, instructions)
     THEN /\ Raise("KeyError")
          /\ instructions' = update_offsets(py, instructions)
          /\ dirty' = dirty
     ELSE LET output == one_pass(py, instructions)
              added == Len(output) - Len(instructions)
          IN IF added < 0
             THEN Raise("AssertionError") /\ instructions' = instructions
                  /\ dirty' = dirty
             ELSE /\ instructions' = output
                  /\ dirty' = added
                  /\ pc' = IF added = 0 THEN "normalized" ELSE "loop"
                  /\ err' = err
  /\ UNCHANGED << py, safe, code, mut, result >>
  /\ UNCHANGED lvars

\* remove_extra_line_nums, assemble, and the code unit is returned.
Assemble ==
  /\ pc = "normalized"
  /\ LET final == remove_extra_line_nums(instructions)
         out == assemble(py, final, code.co_firstlineno)
     IN /\ instructions' = final
        /\ IF out.failed
           THEN Raise("AssertionError") /\ result' = result
           ELSE /\ result' = [co_code |-> out.code, co_lnotab |-> out.lnotab,
                              made |-> TRUE]
                /\ pc' = "done"
                /\ err' = err
  /\ log' = log \o << "remove_extra_line_nums", "assemble" >>
  /\ UNCHANGED << py, safe, code, mut, dirty, passes >>
  /\ UNCHANGED lvars

Next ==
  \/ Decode
  \/ Virtualize
  \/ Canonicalize
  \/ Propagate
  \/ Transformations
  \/ FixVars
  \/ LoopPass
  \/ Assemble

Spec == Init /\ [][Next]_vars

\* The interpreter keeps running the loop while its condition holds.
FairSpec == Spec /\ WF_vars(LoopPass)

\* ------------------------------------------------------------------------
\* The line writers on their own: assemble's calls of update, one per
\* instruction that starts a line, and the end of the code.

\* Byte and line distances between consecutive breakpoints.  The first
\* instruction of a code unit is at offset 0 and starts a line at or after
\* co_firstlineno; later breakpoints are further on and on another line.
ByteDeltas == {2, 300}
LineDeltas == {-130, -1, 1, 300}
FirstLineDeltas == {0, 1, 300}
\* Bytes from the last breakpoint to the end of the code.
EndDeltas == {2, 300}

PipelineOff ==
  /\ py = (IF lkind = "legacy" THEN 308 ELSE 310)
  /\ safe = TRUE
  /\ code = NoCode
  /\ mut = [kind |-> "none", n |-> 0]
  /\ instructions = <<>>
  /\ pc = "assemble"
  /\ err = ""
  /\ dirty = 0
  /\ passes = 0
  /\ result = NoResult
  /\ log = <<>>

\* lnotab_writer(firstlineno) / linetable_writer(firstlineno)
LineInit ==
  /\ lkind \in {"legacy", "modern"}
  /\ lw = (IF lkind = "legacy" THEN lnotab_writer(FirstLine)
           ELSE linetable_writer(FirstLine))
  /\ lfed = <<>>
  /\ lcall = NoCall
  /\ lstage = "feeding"
  /\ PipelineOff

\* update_lineno(inst.starts_line, len(code))
LineUpdate ==
  /\ lstage = "feeding"
  /\ Len(lfed) < MaxUpdates
  /\ \E db \in (IF lfed = <<>> THEN {0} ELSE ByteDeltas),
        dl \in (IF lfed = <<>> THEN FirstLineDeltas ELSE LineDeltas) :
        LET byteno_new == lw.byteno + db
            lineno_new == lw.lineno + dl
            updated == IF lkind = "legacy"
                       THEN lnotab_update(lw, lineno_new, byteno_new)
                       ELSE linetable_update(lw, lineno_new, byteno_new)
        IN /\ lineno_new >= 1
           /\ lw' = updated
           /\ lfed' = Append(lfed, << byteno_new, lineno_new >>)
           /\ lcall' = [kind |-> "update", db |-> db, dl |-> dl,
                        prev_dl |-> lw.lineno_delta, from |-> Len(lw.tab),
                        total |-> 0]
           /\ lstage' = IF updated.failed THEN "failed" ELSE "feeding"
  /\ UNCHANGED lkind
  /\ UNCHANGED pvars

\* The loop of assemble is over: end(len(code)) from 3.10 on, and the table
\* is returned.
LineEnd ==
  /\ lstage = "feeding"
  /\ lfed # <<>>
  /\ \E de \in EndDeltas :
        LET total == lw.byteno + de
            ended == IF lkind = "legacy" THEN lw ELSE linetable_end(lw, total)
        IN /\ lw' = ended
           /\ lcall' = [kind |-> "end", db |-> de, dl |-> 0,
                        prev_dl |-> lw.lineno_delta, from |-> Len(lw.tab),
                        total |-> total]
           /\ lstage' = IF ended.failed THEN "failed" ELSE "ended"
  /\ UNCHANGED << lkind, lfed >>
  /\ UNCHANGED pvars

LineNext ==
  \/ LineUpdate
  \/ LineEnd

LineSpec == LineInit /\ [][LineNext]_vars

\* ------------------------------------------------------------------------
\* Properties.

InLog(name) == \E k \in 1..Len(log) : log[k] = name

\* The offset of each instruction of a list laid out end to end (the last
\* entry is the length of the code).
Layout(v, insts) ==
  LET Step(st, i) == Append(st, st[i] + instruction_size(v, insts[i]))
  IN Loop(Step, << 0 >>, [i \in 1..Len(insts) |-> i])

\* The emitted bytes, read back instruction by instruction: entry i is the
\* reading of instructions[i], its operand combined with its prefixes'.
Emitted == unpack_opargs(py, result.co_code)

\* The emitted operand of the jump at position i addresses the first
\* encoding unit of its target in the final layout.
JumpLands(i) ==
  LET t == first_prefix(instructions, IndexOfId(instructions, instructions[i].target), 1)
  IN JumpArgval(py, Emitted[i]) = Layout(py, instructions)[t]

JumpPositions == { i \in 1..Len(instructions) : IsJump(py, instructions[i]) }

Abs(x) == IF x < 0 THEN 0 - x ELSE x

\* ceil(bitlength(arg) / 8) - 1, 0 when arg fits in 8 bits
PrefixCount(arg) ==
  IF Abs(arg) < 256 THEN 0
  ELSE IF Abs(arg) < 65536 THEN 1
  ELSE IF Abs(arg) < 16777216 THEN 2
  ELSE 3

\* The number of EXTENDED_ARG instructions immediately before position i.
PrefixesBefore(insts, i) ==
  LET run == { n \in 0..(i - 1) :
                 \A j \in (i - n)..(i - 1) : insts[j].opname = "EXTENDED_ARG" }
  IN CHOOSE n \in run : \A m \in run : m <= n

Decoded == strip_extended_args(virtualize_jumps(py, get_instructions(py, code)))

\* C1: in safe mode with a caller function that changes nothing, the code
\* unit returned has the instruction bytes of the original and (in the
\* profiles whose table is modelled) its line table, byte for byte.
C1_RoundTripIdentity ==
  (pc = "done" /\ safe /\ mut.kind = "none")
    => /\ result.co_code = code.co_code
       /\ py <= 310 => result.co_lnotab = code.co_lnotab

\* C2: in the code unit returned, whatever the caller's function inserted,
\* deleted or reordered, every jump's emitted operand, read by the profile's
\* rule, addresses the first unit (first prefix) of its target.
C2_JumpCorrectness ==
  pc = "done" => \A i \in JumpPositions : JumpLands(i)

\* C3: in the code unit returned, every instruction with an operand is
\* preceded by exactly ceil(bitlength(arg)/8) - 1 prefixes, and the emitted
\* prefix bytes combined with its own operand byte give arg.
C3_OperandRange ==
  pc = "done"
    => \A i \in 1..Len(instructions) :
         (instructions[i].opname # "EXTENDED_ARG" /\ instructions[i].arg # None)
           => /\ PrefixesBefore(instructions, i) = PrefixCount(instructions[i].arg)
              /\ Emitted[i].arg = instructions[i].arg

\* C4 (as stated): when the loop has exited, offsets are contiguous over the
\* whole list, the prefixes placed in the last pass included.
C4_OffsetContiguityAll ==
  pc = "normalized" => check_offsets(py, instructions)

\* C4 (amended): when the loop has exited, every instruction that is no
\* prefix has as offset the sum of the sizes of the instructions before it,
\* and the prefixes, which the last pass created anew, have no offset.
C4_OffsetContiguityExit ==
  pc = "normalized"
    => LET layout == Layout(py, instructions)
       IN \A i \in 1..Len(instructions) :
             IF instructions[i].opname = "EXTENDED_ARG"
             THEN instructions[i].offset = None
             ELSE instructions[i].offset = layout[i]

C4_Witness ==
  /\ pc = "normalized"
  /\ mut.kind = "insert_before_target"
  /\ passes >= 2
  /\ \E i \in 1..Len(instructions) : instructions[i].opname = "EXTENDED_ARG"

\* The line starts the runtime reads from the table the writer has built.
TableStarts ==
  IF lkind = "legacy"
  THEN lnotab_starts(lw.tab, 1, 0, FirstLine, None, lcall.total)
  ELSE linetable_starts(lw.tab, 1, 0, FirstLine, None)

\* C5: once every breakpoint has been passed to update (and end called in
\* the modern profile), the table read by the runtime's rules gives back
\* exactly the breakpoints fed, in both writers, split deltas included.
C5_LineTableRoundTrip ==
  lstage = "ended" => TableStarts = lfed

PairCount == Len(lw.tab) \div 2
PairByte(k) == lw.tab[2 * k - 1]
PairLine(k) == Signed(lw.tab[2 * k])

RECURSIVE SumBytes(_)
SumBytes(k) == IF k > PairCount THEN 0 ELSE PairByte(k) + SumBytes(k + 1)
RECURSIVE SumLines(_)
SumLines(k) == IF k > PairCount THEN 0 ELSE PairLine(k) + SumLines(k + 1)

\* The pairs emitted by the last call.
CallFirst == (lcall.from \div 2) + 1

PairsInRange ==
  \A k \in 1..PairCount :
     /\ IF lkind = "legacy"
        THEN PairByte(k) \in 0..255 /\ PairLine(k) \in (-128)..127
        ELSE PairByte(k) \in 0..254 /\ PairLine(k) \in (-127)..127
     /\ PairByte(k) # 0 \/ PairLine(k) # 0

\* C6 (as stated): every emitted pair is in range and not <<0, 0>>, no
\* assertion fails, and the pairs an update call emits sum to the byte delta
\* and the line delta of the breakpoint it is called with.
C6_PairsSumToBreakpoint ==
  lkind # "off"
    => /\ PairsInRange
       /\ lstage # "failed"
       /\ lcall.kind = "update"
            => SumBytes(CallFirst) = lcall.db /\ SumLines(CallFirst) = lcall.dl

\* C6 (amended): every emitted pair is in range and not <<0, 0>>, no
\* assertion fails; the pairs a legacy update emits sum to the breakpoint's
\* byte and line delta; the pairs a modern update or end emits sum to the
\* byte delta of the call and to the line delta of the breakpoint before.
C6_SplittingDiscipline ==
  lkind # "off"
    => /\ PairsInRange
       /\ lstage # "failed"
       /\ (lkind = "legacy" /\ lcall.kind = "update")
            => SumBytes(CallFirst) = lcall.db /\ SumLines(CallFirst) = lcall.dl
       /\ (lkind = "modern" /\ lcall.kind \in {"update", "end"})
            => SumBytes(CallFirst) = lcall.db /\ SumLines(CallFirst) = lcall.prev_dl

C6_Witness ==
  /\ lkind = "modern"
  /\ lcall.kind = "update"
  /\ lcall.db = 300
  /\ lcall.prev_dl = 300
  /\ lcall.dl = -130
  /\ PairCount - CallFirst + 1 >= 3

\* C7: from any list in which every jump's target is present, the loop
\* reaches a pass that changes no prefix and exits on dirty = 0; the cap on
\* passes is never what stops it.
C7_NormalizerTerminates ==
  /\ [](pc = "loop" => passes < MaxPasses)
  /\ (pc = "loop" /\ ~devirtualize_raises(py, instructions))
        ~> (pc = "normalized" /\ dirty = 0)

C7_Witness ==
  /\ pc = "normalized"
  /\ dirty = 0
  /\ passes >= 2
  /\ mut.kind = "insert_before_target"

\* C8 (as stated): with safe set the caller's function is never invoked and
\* the list reaching fix_vars is the decoded, virtualized, stripped list.
C8_SafeSkipsMutation ==
  (safe /\ pc = "transformed")
    => ~InLog("transformations") /\ instructions = Decoded

\* C8 (amended): with safe set neither remove_load_call_method nor
\* explicit_super runs, so cleaned_instructions returns the decoded,
\* virtualized, stripped list; propagate_line_nums and the caller's
\* function are still called, and the list reaching fix_vars is what the
\* caller's function left of the propagated list.
C8_SafeSkipsCanonicalization ==
  safe
    => /\ ~InLog("remove_load_call_method")
       /\ ~InLog("explicit_super")
       /\ pc = "cleaned" => instructions = Decoded
       /\ pc = "transformed"
            => /\ InLog("transformations")
               /\ instructions = ApplyMutation(py, mut, propagate_line_nums(Decoded))

C8_Witness ==
  /\ safe
  /\ pc = "transformed"
  /\ mut.kind = "insert_before_target"
  /\ \E i \in 1..Len(instructions) : instructions[i].opname = "LOAD_METHOD"

\* A jump of the list left by the caller's function has a target that is
\* no element of the list.
Dangling ==
  /\ InLog("transformations")
  /\ \E i \in JumpPositions : ~HasId(instructions, instructions[i].target)

\* C9: when the caller's function leaves a jump whose target is not in the
\* list, the first pass of the loop raises KeyError in devirtualize_jumps;
\* nothing is assembled or returned, and the jump keeps its missing target.
C9_DanglingTargetFatal ==
  Dangling
    => /\ ~result.made
       /\ pc \in {"transformed", "loop", "error"}
       /\ pc = "loop" => passes = 0
       /\ pc = "error" => err = "KeyError" /\ passes = 1

C9_Witness ==
  /\ Dangling
  /\ pc = "error"
  /\ mut.kind = "delete_target"

\* The code unit has one jump, a forward branch of 130 units whose operand
\* needs one prefix, and the caller's function has inserted 5 instructions
\* before its target.
Scenario ==
  /\ mut = [kind |-> "insert_before_target", n |-> 5]
  /\ LET decoded == get_instructions(py, code)
         jumps == { i \in 1..Len(decoded) : IsJump(py, decoded[i]) }
     IN /\ Cardinality(jumps) = 1
        /\ \A i \in jumps :
              /\ decoded[i].opname \in hasjrel(py)
              /\ decoded[i].argval - (decoded[i].offset + 2) = 2 * 130
              /\ PrefixCount(decoded[i].arg) = 1

\* C10: in that scenario the loop exits after at most 2 passes and the
\* emitted operand of the jump addresses the shifted target.
C10_ScenarioConverges ==
  (pc \in {"normalized", "done"} /\ Scenario)
    => /\ passes <= 2
       /\ pc = "done" => \A i \in JumpPositions : JumpLands(i)

C10_Witness ==
  /\ pc = "done"
  /\ Scenario
  /\ passes = 2

\* C11: in the profile that packs the call-convention flag into the operand
\* of LOAD_GLOBAL, a fix_vars that returns leaves every LOAD_GLOBAL with
\* arg = (index of its name in co_names) * 2 + (its arg before) mod 2, every
\* other local or name instruction with arg = the index of its name in
\* co_varnames or co_names, and every remaining arg as it was; only arg is
\* written, and a second fix_vars changes nothing.
C11_FlagKept ==
  [][(py >= 311 /\ pc = "transformed" /\ pc' = "loop")
       => /\ Len(instructions') = Len(instructions)
          /\ \A i \in 1..Len(instructions) :
                LET before == instructions[i]
                    after == instructions'[i]
                IN /\ after = [before EXCEPT !.arg = after.arg]
                   /\ after.arg =
                        IF before.opname = "LOAD_GLOBAL"
                        THEN IndexIn(CoNames, before.argname) * 2 + (before.arg % 2)
                        ELSE IF before.opname \in HAS_LOCAL
                        THEN IndexIn(CoVarnames, before.argname)
                        ELSE IF before.opname \in HAS_NAME
                        THEN IndexIn(CoNames, before.argname)
                        ELSE before.arg
          /\ fix_vars(py, instructions', code) = instructions']_vars

\* fix_vars has returned a list in which the caller's LOAD_GLOBAL of the
\* name of index 2, created with a stale index and the flag set, has arg 5,
\* next to a name instruction that carries no flag.
C11_Witness ==
  /\ py >= 311
  /\ pc = "loop"
  /\ passes = 0
  /\ mut = [kind |-> "insert_load_global", n |-> 1]
  /\ \E i \in 1..Len(instructions) :
        /\ instructions[i].opname = "LOAD_GLOBAL"
        /\ instructions[i].argname = "a"
        /\ instructions[i].arg = 5
  /\ \E i \in 1..Len(instructions) :
        /\ instructions[i].opname = "LOAD_ATTR"
        /\ instructions[i].arg = IndexIn(CoNames, instructions[i].argname)

\* C12: when virtualize_jumps and strip_extended_args have run, the target
\* of every jump is an instruction of the list that is no EXTENDED_ARG and
\* whose is_jump_target is set, also when the raw offset of the jump was
\* that of a prefix of the target.
C12_TargetMarked ==
  pc = "virtualized"
    => \A i \in JumpPositions :
          /\ HasId(instructions, instructions[i].target)
          /\ LET t == instructions[IndexOfId(instructions, instructions[i].target)]
             IN t.opname # "EXTENDED_ARG" /\ t.is_jump_target

====
